---- MODULE Spec2Model ----
(***************************************************************************)
(* Round-robin HTTP load balancer (main.go): the server pool with its      *)
(* atomic cursor, the per-backend liveness flags, the request router       *)
(* LoadBalance, the reverse proxy's ErrorHandler (retry / failover) and    *)
(* the periodic health checker.                                            *)
(*                                                                         *)
(* Backends are indexed 0..n-1 as in the Go slice.  A backend address is   *)
(* a small integer; `up` says whether the server at an address currently   *)
(* accepts connections and answers, and is changed at any moment by the    *)
(* environment, so that every pattern of forwarding faults and probe       *)
(* results occurs.                                                         *)
(***************************************************************************)
EXTENDS Integers, Sequences, FiniteSets

\* ------------------------------------------------------------------ bounds
\* pool sizes 1..MaxBackends are explored
MaxBackends == 5
\* width of the cursor in the model; the code's cursor is a uint64, and
\* 2^CursorBits stands for 2^64 (both leave a non-zero remainder modulo 3)
CursorBits == 4
\* concurrent inbound requests
NumRequests == 2
\* pools of up to MaxConcurrentPool backends serve NumRequests concurrent
\* requests; larger pools serve one request at a time
MaxConcurrentPool == 2
\* pools of up to MaxEnvPool backends are explored with servers that go
\* down and come back during the run
MaxEnvPool == 2
\* pools of up to MaxDupPool backends are explored with backend lists in
\* which addresses repeat
MaxDupPool == 3

\* ------------------------------------------------------- program constants
MAX_RETRIES == 3

RECURSIVE Pow2(_)
Pow2(k) == IF k = 0 THEN 1 ELSE 2 * Pow2(k - 1)

CursorModulus == Pow2(CursorBits)
Requests == 1..NumRequests
\* the tasks that touch liveness flags: the request goroutines and the
\* health-checker goroutine
HealthChecker == 0
Tasks == Requests \cup {HealthChecker}
Addresses == 0..(MaxBackends - 1)

VARIABLES
    backends,    \* serverPool.backends: index -> address, fixed after startup
    Alive,       \* Backend.Alive of every backend, by index
    current,     \* serverPool.current, the rotation cursor
    up,          \* environment: address -> the server there answers
    pc,          \* per request: where its goroutine stands
    attempts,    \* per request: context value Attempts
    retries,     \* per request: context value Retry
    next,        \* per request: GetNext's local `next`
    i,           \* per request: GetNext's loop variable
    nextServer,  \* per request: index of the backend LoadBalance routes to
    hcpc,        \* health checker: where it stands
    hcIndex,     \* health checker: position of its range loop
    hcAlive,     \* health checker: its local `alive`, the last probe result
    held,        \* the locks held: which task holds which backend's mux
                 \* in which mode ("R" after RLock, "W" after Lock)
    mu,          \* per task: "In" between its Lock/RLock and its unlock
    written,     \* per request: what has been written to its
                 \* http.ResponseWriter, a sequence of "Success" (a backend's
                 \* response passed through) and "Unavailable" (a 503)
    frames,      \* per request: the LoadBalance calls on its stack that wait
                 \* for nextServer.ReverseProxy.ServeHTTP to return
    \* ---- history variables (observe the program, never read by it)
    deadSince,   \* per request: backends whose flag was false at every
                 \* instant since its current GetNext call started
    healthy,     \* per request: backends with flag true and server up at
                 \* every instant since the request arrived
    inPlace,     \* per request: in-place retries of the backend selected last
                 \* (counted up to MAX_RETRIES + 1)
    rerouted,    \* per request: the last selection followed a failover
    lastFailed,  \* per request: the backend its failover has just declared
                 \* dead, until the router has selected again
    upSinceTick, \* backends whose server was up at every instant since the
                 \* health checker's current tick started
    revived,     \* backends whose flag the health checker has turned from
                 \* false to true
    hist,        \* sequential calls: the cursor before each call and the
                 \* call's result
    startCursor, \* concurrent calls: the cursor before the first of them
    work         \* per request: how many GetNext() calls it has caused, how
                 \* many times it has marked a backend dead, how many times it
                 \* was forwarded since its last selection and in total (each
                 \* counted up to one more than the bound it is compared with)

progVars == <<backends, Alive, current, up, pc, attempts, retries, next, i,
              nextServer, hcpc, hcIndex, hcAlive>>
histVars == <<deadSince, healthy, inPlace, rerouted, lastFailed,
              upSinceTick, revived, hist, startCursor, work>>
\* IsAlive and SetAlive are single steps except in LockSpec, which takes
\* them apart into the acquisition of the lock and the access under it
lockVars == <<held, mu>>
\* what a request writes to its caller, and the unwinding of its call stack
\* once an answer is written, are followed in RequestSpec only
replyVars == <<written, frames>>
vars == <<progVars, lockVars, replyVars, histVars>>

N == Cardinality(DOMAIN backends)
Indexes == DOMAIN backends
None == -1

Min(S) == CHOOSE x \in S : \A y \in S : x <= y

\* ------------------------------------------------------------ Backend
\* a flag that is not consulted
IsAliveUnchecked(b) == TRUE

IsAlive(b) == Alive[b]

SetAlive(b, alive) == [Alive EXCEPT ![b] = alive]

\* one lock for the whole pool
MuxShared(b) == 0

\* Backend.mux: every backend has a lock of its own
MuxOf(b) == b

Lock(t, m, mode) == [task |-> t, mux |-> m, mode |-> mode]
\* sync.RWMutex: RLock returns once no writer holds the lock, Lock once
\* nobody holds it
CanRLock(m) == \A l \in held : l.mux = m => l.mode = "R"
CanLock(m) == \A l \in held : l.mux # m

\* an unlock that is left out
ReleaseMissing(t, m, mode) == held

\* b.mux.RUnlock() / b.mux.Unlock()
Release(t, m, mode) == held \ {Lock(t, m, mode)}

\* ------------------------------------------------------------ ServerPool
\* an increment that is lost
AtomicAddLost(c, delta) == c % CursorModulus

AtomicAddUint64(c, delta) == (c + delta) % CursorModulus

\* a store that is left out
AtomicStoreSkipped(c, v) == c

AtomicStoreUint64(c, v) == v

\* a start index computed from the cursor before the increment
NextIndexStale(c) == c % N

NextIndex(c) == AtomicAddUint64(c, 1) % N

\* a scan that stops one position early
LoopEndShort(nx) == nx + N - 1

\* GetNext's `end`
LoopEnd(nx) == nx + N

\* a status written with the opposite value
MarkBackendStatusInverted(u, alive) ==
    LET same == {b \in Indexes : backends[b] = u}
    IN  IF same = {} THEN Alive ELSE SetAlive(Min(same), ~alive)

\* MarkBackendStatus: the first backend whose URL string equals u
MarkBackendStatus(u, alive) ==
    LET same == {b \in Indexes : backends[b] = u}
    IN  IF same = {} THEN Alive ELSE SetAlive(Min(same), alive)

\* a probe whose result is inverted
isBackendAliveInverted(u) == ~up[u]

isBackendAlive(u) == up[u]

\* ------------------------------------------------------------ the router
\* ceilings that are off by one, either way
AttemptsExceededLate(a) == a > MAX_RETRIES + 1
AttemptsExceededEarly(a) == a >= MAX_RETRIES

AttemptsExceeded(a) == a > MAX_RETRIES

\* LoadBalance up to and including GetNext's call of NextIndex
LoadBalance(r) ==
    /\ pc[r] = "LoadBalance"
    /\ IF AttemptsExceeded(attempts[r])
       THEN /\ pc' = [pc EXCEPT ![r] = "Unavailable"]
            /\ UNCHANGED <<current, next, i>>
       ELSE /\ current' = AtomicAddUint64(current, 1)
            /\ next' = [next EXCEPT ![r] = NextIndex(current)]
            /\ i' = [i EXCEPT ![r] = NextIndex(current)]
            /\ pc' = [pc EXCEPT ![r] = "GetNext"]
    /\ nextServer' = [nextServer EXCEPT ![r] = None]
    /\ UNCHANGED <<backends, Alive, up, attempts, retries,
                   hcpc, hcIndex, hcAlive>>

\* one iteration of GetNext's loop: one read of a liveness flag
GetNext(r) ==
    /\ pc[r] = "GetNext"
    /\ LET index == i[r] % N
           end == LoopEnd(next[r])
       IN  IF IsAlive(index)
           THEN /\ nextServer' = [nextServer EXCEPT ![r] = index]
                /\ pc' = [pc EXCEPT ![r] =
                            IF i[r] # next[r] THEN "StoreCurrent" ELSE "ServeHTTP"]
                /\ i' = [i EXCEPT ![r] = 0]
                /\ next' = [next EXCEPT ![r] = 0]
           ELSE /\ i' = [i EXCEPT ![r] = i[r] + 1]
                /\ nextServer' = [nextServer EXCEPT ![r] = None]
                /\ next' = next
                /\ pc' = [pc EXCEPT ![r] =
                            IF i[r] + 1 < end THEN "GetNext" ELSE "Unavailable"]
    /\ UNCHANGED <<backends, Alive, current, up, attempts, retries,
                   hcpc, hcIndex, hcAlive>>

\* GetNext's atomic.StoreUint64(&s.current, index) and its return
StoreCurrent(r) ==
    /\ pc[r] = "StoreCurrent"
    /\ current' = AtomicStoreUint64(current, nextServer[r])
    /\ pc' = [pc EXCEPT ![r] = "ServeHTTP"]
    /\ UNCHANGED <<backends, Alive, up, attempts, retries, next, i,
                   nextServer, hcpc, hcIndex, hcAlive>>

\* nextServer.ReverseProxy.ServeHTTP: one forward to the selected backend
ServeHTTP(r) ==
    /\ pc[r] = "ServeHTTP"
    /\ \E ok \in BOOLEAN :
         /\ ok => up[backends[nextServer[r]]]
         /\ pc' = [pc EXCEPT ![r] = IF ok THEN "Success" ELSE "ErrorHandler"]
    /\ UNCHANGED <<backends, Alive, current, up, attempts, retries, next, i,
                   nextServer, hcpc, hcIndex, hcAlive>>

\* ------------------------------------------------- retry / failover policy
\* a retry ceiling that is off by one
RetryAllowedInclusive(n) == n <= MAX_RETRIES

RetryAllowed(n) == n < MAX_RETRIES

\* a retry that does not count itself
NextRetrySame(n) == n

\* the Retry value of the context of an in-place retry
NextRetry(n) == n + 1

\* the context handed to LoadBalance on failover: request.Context() with
\* Attempts replaced, every other value (Retry) carried over
FailoverRetry(n) == n

ErrorHandler(r) ==
    /\ pc[r] = "ErrorHandler"
    /\ IF RetryAllowed(retries[r])
       THEN /\ retries' = [retries EXCEPT ![r] = NextRetry(retries[r])]
            /\ pc' = [pc EXCEPT ![r] = "ServeHTTP"]
            /\ UNCHANGED <<Alive, attempts>>
       ELSE /\ Alive' = MarkBackendStatus(backends[nextServer[r]], FALSE)
            /\ attempts' = [attempts EXCEPT ![r] = attempts[r] + 1]
            /\ retries' = [retries EXCEPT ![r] = FailoverRetry(retries[r])]
            /\ pc' = [pc EXCEPT ![r] = "LoadBalance"]
    /\ UNCHANGED <<backends, current, up, next, i, nextServer,
                   hcpc, hcIndex, hcAlive>>

\* ------------------------------------------------------ health checker
\* the ticker fires: serverPool.HealthCheck() starts its range loop
HealthCheckTick ==
    /\ hcpc = "Ticker"
    /\ hcIndex' = 0
    /\ hcpc' = "isBackendAlive"
    /\ UNCHANGED <<backends, Alive, current, up, pc, attempts, retries, next,
                   i, nextServer, hcAlive>>

\* alive := isBackendAlive(b.URL)
HealthCheckProbe ==
    /\ hcpc = "isBackendAlive"
    /\ hcAlive' = isBackendAlive(backends[hcIndex])
    /\ hcpc' = "SetAlive"
    /\ UNCHANGED <<backends, Alive, current, up, pc, attempts, retries, next,
                   i, nextServer, hcIndex>>

\* b.SetAlive(alive), then the next backend of the loop
HealthCheckSet ==
    /\ hcpc = "SetAlive"
    /\ Alive' = SetAlive(hcIndex, hcAlive)
    /\ hcIndex' = IF hcIndex + 1 < N THEN hcIndex + 1 ELSE 0
    /\ hcpc' = IF hcIndex + 1 < N THEN "isBackendAlive" ELSE "Ticker"
    /\ hcAlive' = TRUE
    /\ UNCHANGED <<backends, current, up, pc, attempts, retries, next, i,
                   nextServer>>

\* ------------------------------------------------------ environment
\* the server at address u stops or starts answering
BackendFlips(u) ==
    /\ \E b \in Indexes : backends[b] = u
    /\ up' = [up EXCEPT ![u] = ~up[u]]
    /\ UNCHANGED <<backends, Alive, current, pc, attempts, retries, next, i,
                   nextServer, hcpc, hcIndex, hcAlive>>

\* a further inbound request arrives once request r has been answered
NewRequest(r) ==
    /\ pc[r] \in {"Success", "Unavailable"}
    /\ pc' = [pc EXCEPT ![r] = "LoadBalance"]
    /\ attempts' = [attempts EXCEPT ![r] = 0]
    /\ retries' = [retries EXCEPT ![r] = 0]
    /\ nextServer' = [nextServer EXCEPT ![r] = None]
    /\ UNCHANGED <<backends, Alive, current, up, next, i,
                   hcpc, hcIndex, hcAlive>>

\* ------------------------------------------------------ the response
\* a forward after whose return LoadBalance goes on to its last line and
\* writes a 503
AfterForwardFallsThrough(w) == Append(w, "Unavailable")

\* LoadBalance after nextServer.ReverseProxy.ServeHTTP(w, r): return
AfterForward(w) == w

\* a LoadBalance call whose forward has returned returns
ReturnFrame(r) ==
    /\ pc[r] \in {"Success", "Unavailable"}
    /\ frames[r] > 0
    /\ frames' = [frames EXCEPT ![r] = frames[r] - 1]
    /\ written' = [written EXCEPT ![r] = AfterForward(written[r])]
    /\ UNCHANGED progVars

\* what the steps of the router and the proxy write to the ResponseWriter:
\* http.Error(w, ..., 503) in LoadBalance, the backend's response in
\* ServeHTTP; and the LoadBalance call that enters ServeHTTP
WritesReply ==
    /\ written' = [r \in Requests |->
         IF pc[r] \in {"LoadBalance", "GetNext"} /\ pc'[r] = "Unavailable"
         THEN Append(written[r], "Unavailable")
         ELSE IF pc[r] = "ServeHTTP" /\ pc'[r] = "Success"
         THEN Append(written[r], "Success")
         ELSE written[r]]
    /\ frames' = [r \in Requests |->
         IF pc[r] = "GetNext" /\ pc'[r] \in {"StoreCurrent", "ServeHTTP"}
         THEN frames[r] + 1
         ELSE frames[r]]

\* ------------------------------------------------------ history variables
Dead(A) == {b \in Indexes : ~A[b]}
UpBackends(u) == {b \in Indexes : u[backends[b]]}
Terminal == {"Success", "Unavailable"}
Arrives(r) == pc[r] \in Terminal /\ pc'[r] = "LoadBalance"
Selected(r) == pc[r] = "GetNext" /\ pc'[r] \in {"StoreCurrent", "ServeHTTP"}
ForwardFails(r) == pc[r] = "ServeHTTP" /\ pc'[r] = "ErrorHandler"
FailsOver(r) == pc[r] = "ErrorHandler" /\ pc'[r] = "LoadBalance"
\* backends whose flag is true, whose server is up and to which no forward
\* fails in this step
HealthyNow ==
    {b \in Indexes : Alive'[b] /\ up'[backends[b]]
                     /\ \A q \in Requests : ForwardFails(q) => nextServer[q] # b}

\* what the request-side history variables record of a step
ObserveRetries ==
    /\ inPlace' = [r \in Requests |->
         IF Selected(r) \/ Arrives(r) THEN 0
         ELSE IF pc[r] = "ErrorHandler" /\ pc'[r] = "ServeHTTP"
              THEN Min({inPlace[r] + 1, MAX_RETRIES + 1})
         ELSE inPlace[r]]
    /\ rerouted' = [r \in Requests |->
         IF FailsOver(r) THEN TRUE
         ELSE IF Arrives(r) THEN FALSE
         ELSE rerouted[r]]

\* the work a request has caused; every count stops one above the bound
\* it is compared with
MaxSelections == MAX_RETRIES + 1
MaxForwards == MAX_RETRIES + 1
NoWork == [selections |-> 0, marked |-> 0, forwards |-> 0, total |-> 0]
Count(n, bound) == Min({n + 1, bound + 1})
Forwarded(r) == pc[r] = "ServeHTTP" /\ pc'[r] # "ServeHTTP"
CallsGetNext(r) == pc[r] = "LoadBalance" /\ pc'[r] = "GetNext"
ObserveWork ==
    work' = [r \in Requests |->
        IF Arrives(r) THEN NoWork
        ELSE IF CallsGetNext(r)
        THEN [work[r] EXCEPT !.selections = Count(@, MaxSelections),
                             !.forwards = 0]
        ELSE IF Forwarded(r)
        THEN [work[r] EXCEPT
                 !.forwards = Count(@, MaxForwards),
                 !.total = Count(@, MaxSelections * MaxForwards)]
        ELSE IF FailsOver(r)
        THEN [work[r] EXCEPT !.marked = Count(@, MaxSelections)]
        ELSE work[r]]

ObserveFailed ==
    lastFailed' = [r \in Requests |->
         IF FailsOver(r) THEN nextServer[r]
         ELSE IF Selected(r) \/ pc'[r] \in Terminal THEN None
         ELSE lastFailed[r]]

ObserveFlags ==
    /\ deadSince' = [r \in Requests |->
         IF pc[r] = "LoadBalance" /\ pc'[r] = "GetNext" THEN Dead(Alive)
         ELSE IF Arrives(r) THEN {}
         ELSE IF pc'[r] = "GetNext" THEN deadSince[r] \cap Dead(Alive')
         ELSE deadSince[r]]
    /\ healthy' = [r \in Requests |->
         IF Arrives(r) THEN HealthyNow
         ELSE IF pc'[r] \in Terminal \cup {"Idle"} THEN healthy[r]
         ELSE healthy[r] \cap HealthyNow]

\* what the health-checker history variable records of a step
ObserveTick ==
    upSinceTick' =
        IF hcpc = "Ticker" /\ hcpc' # "Ticker" THEN UpBackends(up')
        ELSE upSinceTick \cap UpBackends(up')

ObserveRevived ==
    revived' =
        IF hcpc = "SetAlive" /\ ~Alive[hcIndex] /\ Alive'[hcIndex]
        THEN revived \cup {hcIndex} ELSE revived

\* sequential calls of GetNext by request 1: the last N of them
Pending == None - 1
Trim(h) == IF Len(h) >= N THEN Tail(h) ELSE h
ObserveCalls ==
    hist' =
        IF pc[1] = "LoadBalance" /\ pc'[1] = "GetNext"
        THEN Append(Trim(hist), [cursor |-> current, result |-> Pending])
        ELSE IF pc[1] = "GetNext" /\ pc'[1] # "GetNext"
        THEN [hist EXCEPT ![Len(hist)].result = nextServer'[1]]
        ELSE hist

\* ------------------------------------------------------ the system
\* backend lists of 1..MaxBackends entries whose addresses are distinct
BackendLists ==
    {[b \in 0..(n - 1) |-> b] : n \in 1..MaxBackends}

\* the state once initializeBackends has run, the health checker has been
\* started and the listener accepts requests; every server is up or down
\* (BackendFlips changes that later, in the runs that include it), and a
\* forward to a server that is up may still fail
InitPool ==
    /\ backends \in BackendLists
    /\ Alive = [b \in DOMAIN backends |-> TRUE]
    /\ current = 0
    /\ up \in [Addresses -> BOOLEAN]
    /\ \A u \in Addresses : (\A b \in DOMAIN backends : backends[b] # u) => up[u]
    /\ hcpc = "Ticker"
    /\ hcIndex = 0
    /\ hcAlive = TRUE
    /\ upSinceTick = {}
    /\ revived = {}
    /\ hist = <<>>
    /\ startCursor = current
    /\ held = {}
    /\ mu = [t \in Tasks |-> "Out"]

InitRequests(present) ==
    /\ pc = [r \in Requests |-> IF r \in present THEN "LoadBalance" ELSE "Idle"]
    /\ attempts = [r \in Requests |-> 0]
    /\ retries = [r \in Requests |-> 0]
    /\ next = [r \in Requests |-> 0]
    /\ i = [r \in Requests |-> 0]
    /\ nextServer = [r \in Requests |-> None]
    /\ deadSince = [r \in Requests |-> {}]
    /\ healthy = [r \in Requests |->
                    {b \in DOMAIN backends : Alive[b] /\ up[backends[b]]}]
    /\ inPlace = [r \in Requests |-> 0]
    /\ rerouted = [r \in Requests |-> FALSE]
    /\ lastFailed = [r \in Requests |-> None]
    /\ work = [r \in Requests |-> NoWork]
    /\ written = [r \in Requests |-> <<>>]
    /\ frames = [r \in Requests |-> 0]

Init ==
    /\ InitPool
    /\ InitRequests(IF Cardinality(DOMAIN backends) <= MaxConcurrentPool
                    THEN Requests ELSE {1})

\* every step is observed by the history variables
Obs ==
    /\ ObserveRetries /\ ObserveFlags /\ ObserveTick
    /\ UNCHANGED <<lastFailed, revived, hist, startCursor, work>>
    /\ UNCHANGED <<lockVars, replyVars>>

Next ==
    \/ \E r \in Requests : LoadBalance(r) /\ Obs
    \/ \E r \in Requests : GetNext(r) /\ Obs
    \/ \E r \in Requests : StoreCurrent(r) /\ Obs
    \/ \E r \in Requests : ServeHTTP(r) /\ Obs
    \/ \E r \in Requests : ErrorHandler(r) /\ Obs
    \/ HealthCheckTick /\ Obs
    \/ HealthCheckProbe /\ Obs
    \/ HealthCheckSet /\ Obs

Spec == Init /\ [][Next]_vars

\* the request goroutines and the health checker goroutine are scheduled,
\* and the ticker keeps firing
RequestStep(r) ==
    LoadBalance(r) \/ GetNext(r) \/ StoreCurrent(r) \/ ServeHTTP(r)
        \/ ErrorHandler(r)
HealthCheckStep == HealthCheckTick \/ HealthCheckProbe \/ HealthCheckSet
\* servers that go down and come back at any moment, with concurrent
\* requests on the smallest pools and one request on the others
InitEnv ==
    /\ InitPool
    /\ Cardinality(DOMAIN backends) <= MaxEnvPool
    /\ InitRequests(IF Cardinality(DOMAIN backends) < MaxConcurrentPool
                    THEN Requests ELSE {1})

ObsEnv ==
    /\ ObserveRetries /\ ObserveTick /\ ObserveRevived
    /\ UNCHANGED <<deadSince, healthy, lastFailed, hist, startCursor, work>>
    /\ UNCHANGED <<lockVars, replyVars>>

NextEnv ==
    \/ \E r \in Requests : LoadBalance(r) /\ ObsEnv
    \/ \E r \in Requests : GetNext(r) /\ ObsEnv
    \/ \E r \in Requests : StoreCurrent(r) /\ ObsEnv
    \/ \E r \in Requests : ServeHTTP(r) /\ ObsEnv
    \/ \E r \in Requests : ErrorHandler(r) /\ ObsEnv
    \/ HealthCheckTick /\ ObsEnv
    \/ HealthCheckProbe /\ ObsEnv
    \/ HealthCheckSet /\ ObsEnv
    \/ \E u \in Addresses : BackendFlips(u) /\ ObsEnv

EnvSpec == InitEnv /\ [][NextEnv]_vars

FairnessEnv ==
    /\ \A r \in Requests : WF_vars(RequestStep(r) /\ ObsEnv)
    /\ WF_vars(HealthCheckStep /\ ObsEnv)

FairEnvSpec == EnvSpec /\ FairnessEnv

\* sequential selections by one request after another, on a pool whose
\* liveness flags do not change and whose servers all answer; the pool starts
\* in any state earlier traffic can have left it in
InitSeq ==
    /\ backends \in BackendLists
    /\ Alive \in [DOMAIN backends -> BOOLEAN]
    /\ current \in 0..(CursorModulus - 1)
    /\ up = [u \in Addresses |-> TRUE]
    /\ hcpc = "Ticker"
    /\ hcIndex = 0
    /\ hcAlive = TRUE
    /\ upSinceTick = {}
    /\ revived = {}
    /\ hist = <<>>
    /\ startCursor = current
    /\ held = {}
    /\ mu = [t \in Tasks |-> "Out"]
    /\ InitRequests({1})

ObsSeq ==
    /\ ObserveCalls
    /\ UNCHANGED <<deadSince, healthy, inPlace, rerouted, lastFailed,
                   upSinceTick, revived, startCursor, work>>
    /\ UNCHANGED <<lockVars, replyVars>>

NextSeq ==
    \/ LoadBalance(1) /\ ObsSeq
    \/ GetNext(1) /\ ObsSeq
    \/ StoreCurrent(1) /\ ObsSeq
    \/ ServeHTTP(1) /\ pc'[1] = "Success" /\ ObsSeq
    \/ NewRequest(1) /\ ObsSeq

SeqSpec == InitSeq /\ [][NextSeq]_vars

\* backend lists of 1..MaxDupPool entries in which an address may be
\* configured more than once, served by one request at a time
BackendListsDup ==
    UNION {[0..(n - 1) -> 0..(n - 1)] : n \in 1..MaxDupPool}

InitDup ==
    /\ backends \in BackendListsDup
    /\ Alive = [b \in DOMAIN backends |-> TRUE]
    /\ current = 0
    /\ up \in [Addresses -> BOOLEAN]
    /\ \A u \in Addresses : (\A b \in DOMAIN backends : backends[b] # u) => up[u]
    /\ hcpc = "Ticker"
    /\ hcIndex = 0
    /\ hcAlive = TRUE
    /\ upSinceTick = {}
    /\ revived = {}
    /\ hist = <<>>
    /\ startCursor = current
    /\ held = {}
    /\ mu = [t \in Tasks |-> "Out"]
    /\ InitRequests({1})

ObsDup == UNCHANGED <<histVars, lockVars, replyVars>>

NextDup ==
    \/ LoadBalance(1) /\ ObsDup
    \/ GetNext(1) /\ ObsDup
    \/ StoreCurrent(1) /\ ObsDup
    \/ ServeHTTP(1) /\ ObsDup
    \/ ErrorHandler(1) /\ ObsDup
    \/ HealthCheckTick /\ ObsDup
    \/ HealthCheckProbe /\ ObsDup
    \/ HealthCheckSet /\ ObsDup

DupSpec == InitDup /\ [][NextDup]_vars

\* reroutes on pools whose addresses are distinct, interleaved with the
\* health checker and, on the smallest pools, with a second request
ObsReroute ==
    /\ ObserveFailed
    /\ UNCHANGED <<deadSince, healthy, inPlace, rerouted, upSinceTick, revived,
                   hist, startCursor, work>>
    /\ UNCHANGED <<lockVars, replyVars>>

NextReroute ==
    \/ \E r \in Requests : LoadBalance(r) /\ ObsReroute
    \/ \E r \in Requests : GetNext(r) /\ ObsReroute
    \/ \E r \in Requests : StoreCurrent(r) /\ ObsReroute
    \/ \E r \in Requests : ServeHTTP(r) /\ ObsReroute
    \/ \E r \in Requests : ErrorHandler(r) /\ ObsReroute
    \/ HealthCheckTick /\ ObsReroute
    \/ HealthCheckProbe /\ ObsReroute
    \/ HealthCheckSet /\ ObsReroute

RerouteSpec == InitEnv /\ [][NextReroute]_vars

\* ------------------------------------------------------ the locks
\* the backend MarkBackendStatus(u, _) writes
FirstMatch(u) == Min({b \in Indexes : backends[b] = u})

\* IsAlive: b.mux.RLock()
IsAliveRLock(r) ==
    /\ pc[r] = "GetNext"
    /\ mu[r] = "Out"
    /\ CanRLock(MuxOf(i[r] % N))
    /\ held' = held \cup {Lock(r, MuxOf(i[r] % N), "R")}
    /\ mu' = [mu EXCEPT ![r] = "In"]
    /\ UNCHANGED progVars

\* IsAlive: alive := b.Alive; b.mux.RUnlock(); and GetNext's use of it
IsAliveRUnlock(r) ==
    /\ mu[r] = "In"
    /\ GetNext(r)
    /\ held' = Release(r, MuxOf(i[r] % N), "R")
    /\ mu' = [mu EXCEPT ![r] = "Out"]

\* SetAlive called by MarkBackendStatus: b.mux.Lock()
MarkLock(r) ==
    /\ pc[r] = "ErrorHandler"
    /\ ~RetryAllowed(retries[r])
    /\ mu[r] = "Out"
    /\ CanLock(MuxOf(FirstMatch(backends[nextServer[r]])))
    /\ held' = held \cup
                 {Lock(r, MuxOf(FirstMatch(backends[nextServer[r]])), "W")}
    /\ mu' = [mu EXCEPT ![r] = "In"]
    /\ UNCHANGED progVars

\* the ErrorHandler: an in-place retry takes no lock; the failover's
\* SetAlive writes b.Alive and calls b.mux.Unlock()
ErrorHandlerLocked(r) ==
    /\ ErrorHandler(r)
    /\ IF RetryAllowed(retries[r])
       THEN UNCHANGED lockVars
       ELSE /\ mu[r] = "In"
            /\ held' = Release(r, MuxOf(FirstMatch(backends[nextServer[r]])),
                               "W")
            /\ mu' = [mu EXCEPT ![r] = "Out"]

\* SetAlive called by ServerPool.HealthCheck: b.mux.Lock()
HealthCheckLock ==
    /\ hcpc = "SetAlive"
    /\ mu[HealthChecker] = "Out"
    /\ CanLock(MuxOf(hcIndex))
    /\ held' = held \cup {Lock(HealthChecker, MuxOf(hcIndex), "W")}
    /\ mu' = [mu EXCEPT ![HealthChecker] = "In"]
    /\ UNCHANGED progVars

\* ... b.Alive = alive; b.mux.Unlock()
HealthCheckUnlock ==
    /\ mu[HealthChecker] = "In"
    /\ HealthCheckSet
    /\ held' = Release(HealthChecker, MuxOf(hcIndex), "W")
    /\ mu' = [mu EXCEPT ![HealthChecker] = "Out"]

ObsLock == UNCHANGED <<histVars, replyVars>>

NextLock ==
    \/ \E r \in Requests : LoadBalance(r) /\ UNCHANGED lockVars /\ ObsLock
    \/ \E r \in Requests : IsAliveRLock(r) /\ ObsLock
    \/ \E r \in Requests : IsAliveRUnlock(r) /\ ObsLock
    \/ \E r \in Requests : StoreCurrent(r) /\ UNCHANGED lockVars /\ ObsLock
    \/ \E r \in Requests : ServeHTTP(r) /\ UNCHANGED lockVars /\ ObsLock
    \/ \E r \in Requests : MarkLock(r) /\ ObsLock
    \/ \E r \in Requests : ErrorHandlerLocked(r) /\ ObsLock
    \/ HealthCheckTick /\ UNCHANGED lockVars /\ ObsLock
    \/ HealthCheckProbe /\ UNCHANGED lockVars /\ ObsLock
    \/ HealthCheckLock /\ ObsLock
    \/ HealthCheckUnlock /\ ObsLock

\* concurrent requests and the health checker on pools of up to MaxEnvPool
\* backends
InitLock ==
    /\ InitPool
    /\ Cardinality(DOMAIN backends) <= MaxEnvPool
    /\ InitRequests(Requests)

LockSpec == InitLock /\ [][NextLock]_vars

\* concurrent selections: every request calls GetNext once, in any
\* interleaving, on a pool whose liveness flags do not change and whose
\* servers all answer; the pool starts in any state earlier traffic can have
\* left it in
InitConc ==
    /\ backends \in BackendLists
    /\ Alive \in [DOMAIN backends -> BOOLEAN]
    /\ current \in 0..(CursorModulus - 1)
    /\ up = [u \in Addresses |-> TRUE]
    /\ hcpc = "Ticker"
    /\ hcIndex = 0
    /\ hcAlive = TRUE
    /\ upSinceTick = {}
    /\ revived = {}
    /\ hist = <<>>
    /\ startCursor = current
    /\ held = {}
    /\ mu = [t \in Tasks |-> "Out"]
    /\ InitRequests(Requests)

ObsConc == UNCHANGED <<histVars, lockVars, replyVars>>

NextConc ==
    \/ \E r \in Requests : LoadBalance(r) /\ ObsConc
    \/ \E r \in Requests : GetNext(r) /\ ObsConc
    \/ \E r \in Requests : StoreCurrent(r) /\ ObsConc
    \/ \E r \in Requests : ServeHTTP(r) /\ pc'[r] = "Success" /\ ObsConc

ConcSpec == InitConc /\ [][NextConc]_vars

\* requests followed from arrival to the return of their outermost
\* LoadBalance call, with what they write to their caller
ObsRequest ==
    /\ ObserveWork
    /\ UNCHANGED <<deadSince, healthy, inPlace, rerouted, lastFailed,
                   upSinceTick, revived, hist, startCursor>>
    /\ UNCHANGED lockVars

NextRequest ==
    \/ \E r \in Requests : LoadBalance(r) /\ WritesReply /\ ObsRequest
    \/ \E r \in Requests : GetNext(r) /\ WritesReply /\ ObsRequest
    \/ \E r \in Requests : StoreCurrent(r) /\ WritesReply /\ ObsRequest
    \/ \E r \in Requests : ServeHTTP(r) /\ WritesReply /\ ObsRequest
    \/ \E r \in Requests : ErrorHandler(r) /\ WritesReply /\ ObsRequest
    \/ \E r \in Requests : ReturnFrame(r) /\ ObsRequest
    \/ HealthCheckTick /\ WritesReply /\ ObsRequest
    \/ HealthCheckProbe /\ WritesReply /\ ObsRequest
    \/ HealthCheckSet /\ WritesReply /\ ObsRequest

RequestSpec == Init /\ [][NextRequest]_vars

\* ====================================================== properties
AllAlive == \A b \in Indexes : Alive[b]
AliveSet == {b \in Indexes : Alive[b]}
Returned(k) == hist[k].result # Pending
\* the increment of call k took the cursor from its largest value to 0
Wraps(k) == hist[k].cursor = CursorModulus - 1 /\ CursorModulus % N # 0
Results(from, to) == {hist[k].result : k \in from..to}

\* ------------------------------------------------------------------ C2
\* C2 as stated: with all N backends alive and no liveness change, each
\* sequential GetNext() call returns the index after the one the call
\* before it returned, modulo N, and N consecutive calls return N distinct
\* backends.
C2_AnyConsecutiveCalls ==
    AllAlive =>
        /\ \A k \in 2..Len(hist) :
              Returned(k) => hist[k].result = (hist[k - 1].result + 1) % N
        /\ (Len(hist) = N /\ Returned(N)) => Results(1, N) = Indexes

\* C2 amended: the same, for calls whose increment does not wrap the
\* cursor from its largest value to 0 (a wrap changes nothing when N divides
\* the cursor's modulus).
C2_RoundRobinFairness ==
    AllAlive =>
        /\ \A k \in 2..Len(hist) :
              (Returned(k) /\ ~Wraps(k)) =>
                  hist[k].result = (hist[k - 1].result + 1) % N
        /\ (Len(hist) = N /\ Returned(N) /\ \A k \in 2..N : ~Wraps(k)) =>
              Results(1, N) = Indexes

C2_Witness ==
    /\ AllAlive
    /\ N = 3
    /\ Len(hist) = N
    /\ Returned(N)
    /\ \A k \in 2..N : ~Wraps(k)
    /\ hist[1].result = 2
    /\ hist[N].result = 1

\* ------------------------------------------------------------------ C9
\* the first alive backend after index j in cyclic order
NextAliveAfter(j) ==
    LET d == Min({e \in 1..N : Alive[(j + e) % N]}) IN (j + d) % N

\* C9 as stated: with a fixed non-empty set of alive backends and at least
\* one dead backend, sequential GetNext() calls return alive backends only,
\* each call the first alive backend after the one returned before it, and
\* any |A| consecutive calls return every alive backend, from every cursor
\* value.
C9_FromEveryCursor ==
    (AliveSet # {} /\ ~AllAlive) =>
        /\ \A k \in 1..Len(hist) : Returned(k) => hist[k].result \in AliveSet
        /\ \A k \in 2..Len(hist) :
              Returned(k) => hist[k].result = NextAliveAfter(hist[k - 1].result)
        /\ \A k \in 1..Len(hist) :
              (Returned(k) /\ k >= Cardinality(AliveSet)) =>
                  Results(k - Cardinality(AliveSet) + 1, k) = AliveSet

\* C9 amended: the same, from every cursor value, for calls whose increment
\* does not wrap the cursor from its largest value to 0.
C9_RotationSkipsDead ==
    (AliveSet # {} /\ ~AllAlive) =>
        /\ \A k \in 1..Len(hist) : Returned(k) => hist[k].result \in AliveSet
        /\ \A k \in 2..Len(hist) :
              (Returned(k) /\ ~Wraps(k)) =>
                  hist[k].result = NextAliveAfter(hist[k - 1].result)
        /\ \A k \in 1..Len(hist) :
              (/\ Returned(k)
               /\ k >= Cardinality(AliveSet)
               /\ \A j \in (k - Cardinality(AliveSet) + 2)..k : ~Wraps(j)) =>
                  Results(k - Cardinality(AliveSet) + 1, k) = AliveSet

\* four backends, the second one dead: 1st, 3rd, 4th, 1st
C9_Witness ==
    /\ N = 4
    /\ AliveSet = {0, 2, 3}
    /\ Len(hist) = 4
    /\ Returned(4)
    /\ \A k \in 1..4 : ~Wraps(k)
    /\ <<hist[1].result, hist[2].result, hist[3].result, hist[4].result>>
          = <<0, 2, 3, 0>>

\* ------------------------------------------------------------------ C1
\* C1: a backend GetNext() returns is never one whose flag was false from
\* the start of that call on, and its flag is true in the state in which
\* GetNext reads it and returns it, in every interleaving.
C1_LivenessSkip ==
    /\ [](\A r \in Requests :
            nextServer[r] # None => nextServer[r] \notin deadSince[r])
    /\ [][\A r \in Requests : Selected(r) => Alive[nextServer'[r]]]_vars

\* a call that skipped a backend dead throughout and found an alive one
C1_Witness ==
    \E r \in Requests :
        /\ pc[r] = "StoreCurrent"
        /\ deadSince[r] # {}
        /\ nextServer[r] \notin deadSince[r]

\* ------------------------------------------------------------------ C3
\* C3: whenever a request's failover has marked a backend dead and rerouted,
\* the request had retried that backend in place MAX_RETRIES times.
C3_RetryBeforeFailover ==
    \A r \in Requests :
        (pc[r] = "LoadBalance" /\ rerouted[r]) => inPlace[r] = MAX_RETRIES

\* ------------------------------------------------------------------ C4
\* C4: a request whose attempts exceed the ceiling is in LoadBalance or has
\* been answered 503, and the step LoadBalance takes for it answers 503 and
\* changes neither the cursor nor a liveness flag nor the routed backend.
C4_AttemptCeiling ==
    /\ [](\A r \in Requests :
            attempts[r] > MAX_RETRIES => pc[r] \in {"LoadBalance", "Unavailable"})
    /\ [][\A r \in Requests :
            (/\ pc[r] = "LoadBalance"
             /\ attempts[r] > MAX_RETRIES
             /\ pc'[r] # "LoadBalance") =>
                /\ pc'[r] = "Unavailable"
                /\ current' = current
                /\ Alive' = Alive
                /\ nextServer'[r] = None]_vars

C4_Witness ==
    \E r \in Requests : pc[r] = "Unavailable" /\ attempts[r] > MAX_RETRIES

\* ------------------------------------------------------------------ C5
\* C5: while every flag has been false since a GetNext() call started, the
\* call is still scanning or has returned none after N positions, and the
\* request is then answered 503 with no backend routed to.
C5_Exhaustion ==
    \A r \in Requests :
        deadSince[r] = Indexes =>
            /\ pc[r] \in {"GetNext", "Unavailable"}
            /\ nextServer[r] = None
            /\ pc[r] = "GetNext" => i[r] < next[r] + N
            /\ pc[r] = "Unavailable" => i[r] = next[r] + N

C5_Witness ==
    \E r \in Requests :
        /\ N >= 2
        /\ pc[r] = "Unavailable"
        /\ deadSince[r] = Indexes
        /\ attempts[r] <= MAX_RETRIES

\* ------------------------------------------------------------------ C6
\* C6 as stated: a request is never answered 503 when some backend has been
\* healthy (flag true, server answering, no forward to it failing) for the
\* whole lifetime of the request.
C6_NeverUnavailableWhileHealthy ==
    \A r \in Requests : pc[r] = "Unavailable" => healthy[r] = {}

\* C6 amended: such a request is answered 503 only by the attempt ceiling,
\* never because GetNext() returned none.
C6_OnlyCeilingWhileHealthy ==
    \A r \in Requests :
        (pc[r] = "Unavailable" /\ healthy[r] # {}) => attempts[r] > MAX_RETRIES

C6_Witness ==
    \E r \in Requests :
        /\ pc[r] = "Unavailable"
        /\ healthy[r] # {}
        /\ attempts[r] = MAX_RETRIES + 1

\* ------------------------------------------------------------------ C10
\* C10: at the first forward to a backend selected after a failover, the
\* request's retries counter is 0.
C10_RetriesResetOnReroute ==
    \A r \in Requests :
        (pc[r] = "ServeHTTP" /\ rerouted[r] /\ inPlace[r] = 0) => retries[r] = 0

\* ------------------------------------------------------------------ C7
\* C7: every inbound request is eventually answered, with Success or 503.
C7_Termination ==
    \A r \in Requests : pc[r] # "Idle" => <>(pc[r] \in Terminal)

\* a request answered after in-place retries and reroutes
C7_Witness ==
    \E r \in Requests :
        pc[r] \in Terminal /\ retries[r] = MAX_RETRIES /\ attempts[r] >= 2

\* ------------------------------------------------------------------ C8
\* C8: a health-checker step that sets the flag of a backend whose server
\* has been reachable since the tick started sets it to true; and a backend
\* whose server stays reachable from some moment on is, from some moment
\* on, always flagged alive (and so selectable by GetNext).
C8_HealthCheckConvergence ==
    /\ [][(/\ hcpc = "SetAlive"
           /\ hcpc' # "SetAlive" \/ hcIndex' # hcIndex
           /\ hcIndex \in upSinceTick) => Alive'[hcIndex]]_vars
    /\ \A b \in Addresses :
          <>[](b \in Indexes => up[backends[b]])
              => <>[](b \in Indexes => Alive[b])

\* the only backend was marked dead by a failover, revived by the health
\* checker, and then served the rerouted request
C8_Witness ==
    /\ N = 1
    /\ 0 \in revived
    /\ Alive[0]
    /\ \E r \in Requests : pc[r] = "Success" /\ attempts[r] >= 1

\* ------------------------------------------------------------------ C11
\* C11: in every state of a request retries <= MAX_RETRIES and attempts <=
\* MAX_RETRIES + 1; no step of the request's lifetime decreases a counter;
\* an in-place retry makes retries one greater and leaves attempts, a
\* reroute makes attempts one greater, and no other step changes a counter.
C11_CounterInvariant ==
    /\ [](\A r \in Requests :
            retries[r] <= MAX_RETRIES /\ attempts[r] <= MAX_RETRIES + 1)
    /\ [][\A r \in Requests :
            ~Arrives(r) =>
                /\ retries'[r] >= retries[r]
                /\ attempts'[r] >= attempts[r]
                /\ IF pc[r] = "ErrorHandler" /\ pc'[r] = "ServeHTTP"
                   THEN retries'[r] = retries[r] + 1
                        /\ attempts'[r] = attempts[r]
                   ELSE IF FailsOver(r)
                   THEN attempts'[r] = attempts[r] + 1
                        /\ retries'[r] = retries[r]
                   ELSE retries'[r] = retries[r]
                        /\ attempts'[r] = attempts[r]]_vars

\* a request that has used every retry and every reroute
C11_Witness ==
    \E r \in Requests :
        /\ retries[r] = MAX_RETRIES
        /\ attempts[r] = MAX_RETRIES + 1
        /\ pc[r] = "Unavailable"

\* ------------------------------------------------------------------ C12
\* the cursor goes from c to d without decreasing, or by wrapping to 0
NotDecreased(c, d) == d >= c \/ (c = CursorModulus - 1 /\ d = 0)
Stores(r) == pc[r] = "StoreCurrent" /\ pc'[r] # "StoreCurrent"
Increments(r) == pc[r] = "LoadBalance" /\ pc'[r] = "GetNext"

\* C12 as stated: no step of a sequence of GetNext() calls decreases the
\* cursor, except by wrap-around, the store of a found index included.
C12_CursorNeverDecreases == [][NotDecreased(current, current')]_vars

\* C12 amended: NextIndex makes the cursor one greater (or wraps it to 0),
\* and no step decreases the cursor except the store after a skip, which
\* sets the cursor to the index of the alive backend found, a value below N,
\* whatever the cursor was.
C12_CursorMonotoneButStore ==
    [][/\ (\A r \in Requests : ~Stores(r)) => NotDecreased(current, current')
       /\ \A r \in Requests :
            /\ Increments(r) => current' = (current + 1) % CursorModulus
            /\ Stores(r) => /\ current' = nextServer[r]
                            /\ current' \in Indexes
                            /\ Alive[current']]_vars

\* a call that skipped a dead backend and stored an index below the cursor
C12_Witness ==
    /\ pc[1] = "ServeHTTP"
    /\ Len(hist) >= 1
    /\ hist[Len(hist)].cursor < CursorModulus - 1
    /\ hist[Len(hist)].result # ((hist[Len(hist)].cursor + 1) % N)
    /\ current = hist[Len(hist)].result
    /\ current < hist[Len(hist)].cursor

\* ------------------------------------------------------------------ C13
\* the last sequential call: the cursor before it, the cursor's increment
\* (in the cursor's unsigned arithmetic), its start index and its result
LastCursor == hist[Len(hist)].cursor
LastSum == (LastCursor + 1) % CursorModulus
LastStart == LastSum % N
LastResult == hist[Len(hist)].result
CallDone == Len(hist) >= 1 /\ pc[1] \in {"ServeHTTP", "Success", "Unavailable"}

\* C13: after one sequential GetNext() with cursor c before it and start
\* s = (c+1) mod N: if s is alive, s is returned and the cursor is c+1; if
\* the first alive backend found is j # s, j is returned and the cursor is
\* j; if none is alive, none is returned and the cursor is c+1; and no step
\* of the call changes a liveness flag or the backend list.
C13_GetNextEffect ==
    /\ [](CallDone =>
            IF Alive[LastStart]
            THEN LastResult = LastStart /\ current = LastSum
            ELSE IF AliveSet # {}
            THEN /\ LastResult = NextAliveAfter(LastStart)
                 /\ LastResult # LastStart
                 /\ current = LastResult
            ELSE LastResult = None /\ current = LastSum)
    /\ [][pc[1] \in {"LoadBalance", "GetNext", "StoreCurrent"} =>
            Alive' = Alive /\ backends' = backends]_vars

\* a call that skipped two dead backends and stored the index it found
C13_Witness ==
    /\ CallDone
    /\ N = 4
    /\ LastCursor = 4
    /\ AliveSet = {0, 3}
    /\ LastResult = 3
    /\ current = 3

\* ------------------------------------------------------------------ C14
\* the health checker's b.SetAlive(alive) step, and its probe step
HealthCheckSets == hcpc = "SetAlive" /\ hcpc' # "SetAlive"
HealthCheckProbes == hcpc = "isBackendAlive" /\ hcpc' = "SetAlive"

\* C14: a flag changes only in a health-checker step, which sets the flag
\* of the probed backend to the probe result (reachable: alive, otherwise
\* dead), or in a failover step of a request at the retry ceiling, which
\* sets a flag to false; so selection, forwarding, in-place retry and the
\* 503 paths change no flag and only the health checker turns a flag from
\* dead to alive.
C14_FlagWriters ==
    /\ [][\A b \in Indexes :
            Alive'[b] # Alive[b] =>
                \/ /\ HealthCheckSets
                   /\ b = hcIndex
                   /\ Alive'[b] = hcAlive
                \/ /\ ~HealthCheckSets
                   /\ ~Alive'[b]
                   /\ \E r \in Requests :
                        /\ FailsOver(r)
                        /\ retries[r] >= MAX_RETRIES
                        /\ backends[b] = backends[nextServer[r]]]_vars
    /\ [][HealthCheckProbes => hcAlive' = up[backends[hcIndex]]]_vars
    /\ [][HealthCheckSets => Alive'[hcIndex] = hcAlive]_vars

\* both writers have acted: the health checker has revived one backend, and
\* the other, whose server answers, is flagged dead after a failover
C14_Witness ==
    /\ N = 2
    /\ revived = {0}
    /\ ~Alive[1]
    /\ up[backends[1]]
    /\ \E r \in Requests : attempts[r] >= 2 /\ pc[r] = "LoadBalance"

\* ------------------------------------------------------------------ C15
\* C15: the failover step of a request whose forwards to backend b failed
\* leaves b's own flag false and the flag of every other backend unchanged,
\* for every backend list, lists with a repeated address included.
C15_FailoverMarksFailingBackend ==
    [][\A r \in Requests :
         FailsOver(r) =>
            /\ ~Alive'[nextServer[r]]
            /\ \A b \in Indexes \ {nextServer[r]} : Alive'[b] = Alive[b]]_vars

\* ------------------------------------------------------------------ C16
\* C16: whenever the router selects again for a request after a failover,
\* the backend selected is not the one the request has just declared dead,
\* in every interleaving with the health checker and other requests.
C16_RerouteToDifferentBackend ==
    [][\A r \in Requests :
         (Selected(r) /\ lastFailed[r] # None) =>
             nextServer'[r] # lastFailed[r]]_vars

\* ------------------------------------------------------------------ C17
HoldersOf(b) == {l \in held : l.mux = b}
LocksOf(t) == {l \in held : l.task = t}
\* the step in which request r reads the flag of backend b
ReadsFlag(r, b) ==
    /\ pc[r] = "GetNext"
    /\ pc'[r] # "GetNext" \/ i'[r] # i[r]
    /\ b = i[r] % N
\* the step in which task t writes the flag of backend b
WritesFlag(t, b) ==
    IF t = HealthChecker
    THEN HealthCheckSets /\ b = hcIndex
    ELSE FailsOver(t) /\ b = FirstMatch(backends[nextServer[t]])
\* task t is in a SetAlive of backend b, before or after getting the lock
InSetAlive(t, b) ==
    IF t = HealthChecker
    THEN hcpc = "SetAlive" /\ b = hcIndex
    ELSE /\ pc[t] = "ErrorHandler"
         /\ ~RetryAllowed(retries[t])
         /\ b = FirstMatch(backends[nextServer[t]])

\* C17: a flag is read only by a task holding that backend's lock for
\* reading and written (or changed) only by a task holding it for writing;
\* a holder for writing is the only holder of that backend's lock; no task
\* holds two locks; and a request about to read backend c can take c's
\* lock unless a task is in a SetAlive of c itself.
C17_LockDiscipline ==
    /\ [][\A b \in Indexes :
            /\ \A r \in Requests :
                 ReadsFlag(r, b) => Lock(r, b, "R") \in held
            /\ \A t \in Tasks :
                 WritesFlag(t, b) => Lock(t, b, "W") \in held
            /\ Alive'[b] # Alive[b] => \E t \in Tasks : WritesFlag(t, b)]_vars
    /\ [](\A l \in held :
            /\ l.mux \in Indexes
            /\ l.mode = "W" => HoldersOf(l.mux) = {l})
    /\ [](\A t \in Tasks : Cardinality(LocksOf(t)) <= 1)
    /\ [](\A r \in Requests :
            (/\ pc[r] = "GetNext"
             /\ mu[r] = "Out"
             /\ \A t \in Tasks : ~InSetAlive(t, i[r] % N))
                => ENABLED IsAliveRLock(r))

\* the health checker holds the lock of one backend for writing while
\* every request holds the lock of the other one for reading
C17_Witness ==
    /\ N = 2
    /\ HoldersOf(0) = {Lock(HealthChecker, 0, "W")}
    /\ HoldersOf(1) = {Lock(r, 1, "R") : r \in Requests}
    /\ Cardinality(HoldersOf(1)) >= 2

\* ------------------------------------------------------------------ C18
\* the concurrent calls, K of them, have all returned
K == Cardinality(Requests)
AllReturned == \A r \in Requests : pc[r] \in {"ServeHTTP", "Success"}
\* the cursor values the K increments produce, and whether one of them is
\* the wrap from the largest value to 0
Sum(k) == (startCursor + k) % CursorModulus
WrapsWithin == CursorModulus % N # 0 /\ \E k \in 1..K : Sum(k) = 0
\* the requests, in some order, got the results given by f
GivenInSomeOrder(f) ==
    \E order \in [Requests -> 1..K] :
        /\ \A r, q \in Requests : r # q => order[r] # order[q]
        /\ \A r \in Requests : nextServer[r] = f[order[r]]

\* C18 as stated: with all N backends alive, K concurrent GetNext() calls
\* leave the cursor K greater than it started, return the backends at K
\* consecutive rotation positions, and for K <= N never return one backend
\* twice.
C18_ConsecutivePositions ==
    (AllAlive /\ AllReturned) =>
        /\ current = Sum(K)
        /\ GivenInSomeOrder([k \in 1..K |-> ((Sum(1) % N) + k - 1) % N])
        /\ K <= N => \A r, q \in Requests :
                        r # q => nextServer[r] # nextServer[q]

\* C18 amended: the cursor ends K greater (in its unsigned arithmetic) and
\* the calls return the backends at the K cursor values produced, each
\* modulo N; these are K consecutive rotation positions, distinct for
\* K <= N, when none of the K increments wraps the cursor from its largest
\* value to 0 (a wrap changes nothing when N divides the cursor's modulus).
C18_NoLostIncrement ==
    (AllAlive /\ AllReturned) =>
        /\ current = Sum(K)
        /\ GivenInSomeOrder([k \in 1..K |-> Sum(k) % N])
        /\ ~WrapsWithin =>
              /\ GivenInSomeOrder([k \in 1..K |-> ((Sum(1) % N) + k - 1) % N])
              /\ K <= N => \A r, q \in Requests :
                              r # q => nextServer[r] # nextServer[q]

\* concurrent calls on three backends that were given different backends
C18_Witness ==
    /\ AllAlive
    /\ AllReturned
    /\ N = 3
    /\ startCursor = 4
    /\ ~WrapsWithin
    /\ nextServer[1] = 0
    /\ nextServer[2] = 2

\* ------------------------------------------------------------------ C19
\* the handler of request r has returned to the server
Returned19(r) == pc[r] \in Terminal /\ frames[r] = 0

\* C19: a request's caller is never given more than one response; none is
\* written before the chain of retries and reroutes ends; when the handler
\* has returned exactly one has been written, the successful passthrough or
\* one 503; and a 503 is written only with attempts > MAX_RETRIES or after
\* GetNext() returned none.
C19_ExactlyOneResponse ==
    \A r \in Requests :
        /\ Len(written[r]) <= 1
        /\ pc[r] \notin Terminal \cup {"Idle"} => written[r] = <<>>
        /\ pc[r] \in Terminal => written[r] = <<pc[r]>>
        /\ pc[r] = "Unavailable" =>
              \/ attempts[r] > MAX_RETRIES
              \/ nextServer[r] = None /\ i[r] = next[r] + N

\* a request answered by the fourth backend it was routed to, once its
\* handler has returned
C19_Witness ==
    \E r \in Requests :
        /\ Returned19(r)
        /\ pc[r] = "Success"
        /\ attempts[r] = MAX_RETRIES

\* ------------------------------------------------------------------ C20
\* C20: a request causes at most MAX_RETRIES + 1 GetNext() calls, marks a
\* backend dead at most MAX_RETRIES + 1 times, is forwarded at most
\* MAX_RETRIES + 1 times after each selection and at most
\* (MAX_RETRIES + 1) * (MAX_RETRIES + 1) times in total.
C20_BoundedWork ==
    \A r \in Requests :
        /\ work[r].selections <= MaxSelections
        /\ work[r].marked <= MaxSelections
        /\ work[r].forwards <= MaxForwards
        /\ work[r].total <= MaxSelections * MaxForwards

\* a request that used every selection, marked four backends dead and was
\* forwarded four times to the first of them
C20_Witness ==
    \E r \in Requests :
        /\ pc[r] = "Unavailable"
        /\ work[r].selections = MaxSelections
        /\ work[r].marked = MaxSelections
        /\ work[r].total >= MaxForwards + MAX_RETRIES
        /\ Cardinality(Dead(Alive)) = MaxSelections

====
